---------------------------- MODULE Spec2Model ----------------------------
(***************************************************************************)
(* Model of the NETCONF session and framing core, src/src/session.c.       *)
(*                                                                         *)
(* Bytes are ASCII codes.  The XML library is an external collaborator;    *)
(* documents are written in a miniature syntax that keeps what session.c   *)
(* reads of a document (root name, message-id attribute, namespace, first  *)
(* child) and what matters to the framing (the text is a non-empty C       *)
(* string, its last significant byte is '>', a pretty-printed dump ends    *)
(* with a newline):                                                        *)
(*      '<' ROOT [digits of message-id] [NS] [CHILD] '>' [ '\n' ]          *)
(***************************************************************************)
EXTENDS Integers, Sequences, FiniteSets, TLC

(***************************************************************************)
(* Bounds of the model.                                                    *)
(***************************************************************************)
MaxCalls == 3
MaxConcCalls == 2
MaxShortWrites == 1
MaxWriteErrs == 1
MaxPayload == 3
MaxBeyond == 2
MaxList == 2
MaxAdds == 4
MaxRemoves == 2

(***************************************************************************)
(* Bytes.                                                                  *)
(***************************************************************************)
NUL == 0
LF == 10
SP == 32
HASH == 35
PLUS == 43
MINUS == 45
ZERO == 48
LT == 60
GT == 62
RBR == 93
GARBAGE == 255

Digits == ZERO .. (ZERO + 9)

\* The names session.c compares element names with, as bytes of the syntax.
ROOT_RPC == 113
ROOT_REPLY == 114
ROOT_HELLO == 104
CHILD_OK == 111
CHILD_ERROR == 101
CHILD_DATA == 100
CHILD_OTHER == 120
CHILD_CLOSE == 99
NS_BASE10 == 65
NS_BASE11 == 66

NETCONFV10 == 0
NETCONFV11 == 1
EXIT_SUCCESS == 0
EXIT_FAILURE == 1

NC_V10_END_MSG == <<RBR, RBR, GT, RBR, RBR, GT>>
NC_V11_END_MSG == <<LF, HASH, HASH, LF>>

\* nc_msgid is a 64-bit unsigned integer (printed with %llu).  The model
\* keeps a value v of that type as a signed residue: v >= 0 is v itself and
\* v < 0 stands for 2^64 + v, so that 0 - 1 is the residue -1 (2^64 - 1).
\* 2^64 = 18446744073709551616 is written as its sixteen leading digits
\* and the number made by its last four.
TwoTo64High == <<49, 56, 52, 52, 54, 55, 52, 52, 48, 55, 51, 55, 48, 57, 53, 53>>
TwoTo64Low == 1616
\* char msg_id_str[16]
MsgIdStrSize == 16

Threads == {1, 2}

VARIABLES
    msgid,        \* session->msgid
    version,      \* session->version
    ssh_channel,  \* session->ssh_channel != NULL
    fd_output,    \* session->fd_output
    hostname,     \* session->hostname != NULL
    spc,          \* per thread: position in nc_session_send_rpc
    smsg,         \* per thread: msg, the duplicate being stamped and sent
    stmp,         \* per thread: the value read by session->msgid++
    sbuf,         \* per thread: the buffer the current write loop writes
    sstage,       \* per thread: which write loop of nc_session_send runs
    sc,           \* per thread: c of nc_session_send
    sendret,      \* per thread: ret of nc_session_send_rpc
    sret,         \* per thread: value returned by nc_session_send_rpc
    sbefore,      \* per thread: session->msgid when the call was made
    scall,        \* per thread: the number of the call it is in
    wire,         \* bytes written to the transport, each with its writer
    log,          \* completed nc_session_send_rpc calls
    ncalls,       \* calls made so far
    limit,        \* calls the callers make at most
    shorts,       \* short writes so far
    werrs         \* write errors so far

VARIABLES
    fd_input,     \* session->fd_input
    input,        \* bytes of the peer not yet read from the transport
    eof,          \* the peer closes the stream after those bytes
    buflen,       \* static buflen of nc_session_read_until
    bufFreed,     \* static buf of nc_session_read_until points to freed memory
    zeroed,       \* how many bytes of buf the memset at entry cleared
    rdbuf,        \* buf[0 .. rd-1] of the running read_until; rd is its length
    endtag,       \* endtag of the running read_until
    rwhere,       \* which read_until call of nc_session_receive runs
    rpc,          \* position in nc_session_recv_reply / nc_session_receive
    text,         \* text of nc_session_receive (empty: NULL or "")
    chunk_length, \* chunk_length of nc_session_receive (64-bit residue)
    lenbuf,       \* buf[0 .. rd-1] of the running nc_session_read_len
    rret,         \* value returned by nc_session_receive
    reply,        \* the caller's reply handle: "unset", "msg" or "dangling"
    rmsg,         \* the struct nc_msg the handle points to
    replyRet,     \* value returned by nc_session_recv_reply
    rtext,        \* the text handed to xmlReadDoc, <<"none">> before
    rparsed,      \* the document xmlReadDoc returned (NoMsg: NULL)
    lenread,      \* bytes consumed by nc_session_read_len so far
    rfail,        \* a transport read failed (error, end of stream, no way)
    zrounds,      \* rounds of the read loops that added 0 to rd, modulo 2
    rcase         \* what the peer wrote: kind, payload, chunks, trailer

VARIABLES
    cpc           \* position in nc_session_close

svars == <<msgid, version, ssh_channel, fd_output, hostname, spc, smsg, stmp,
           sbuf, sstage, sc, sendret, sret, sbefore, scall, wire, log,
           ncalls, limit, shorts, werrs>>

rvars == <<fd_input, input, eof, buflen, bufFreed, zeroed, rdbuf, endtag,
           rwhere, rpc, text, chunk_length, lenbuf, rret, reply, rmsg,
           replyRet, rtext, rparsed, lenread, rfail, zrounds, rcase>>

cvars == <<cpc>>

VARIABLES
    list,         \* c->list[0 ..]: the memory from the start of the storage on
    items,        \* c->items
    list_size,    \* c->list_size
    iter,         \* c->iter
    cap,          \* entries the allocation of c->list has room for
    cst,          \* the set: "none" (not made), "live", or the process "crashed"
    itst,         \* the caller's iteration: "idle", "running" or "ended"
    out,          \* what nc_cpblts_iter_next returned since iter_start
    given,        \* the list the set was made from
    want,         \* the URIs handed to the set and not removed, in order
    prev,         \* items, list_size and list before the last call
    lastop,       \* the last call: its name, argument and return value
    nadds,        \* nc_cpblts_add calls so far
    nrems         \* nc_cpblts_remove calls so far

pvars == <<list, items, list_size, iter, cap, cst, itst, out, given, want,
           prev, lastop, nadds, nrems>>

vars == <<svars, rvars, cvars, pvars>>

(***************************************************************************)
(* Documents.                                                              *)
(***************************************************************************)
NoMsg == [root |-> 0, id |-> <<>>, ns |-> 0, child |-> 0]

\* The documents callers hand to nc_session_send_rpc: an <rpc> with an
\* operation child (nc_rpc_closesession builds <rpc><close-session/></rpc>)
\* and a <hello>.
RpcDoc == [root |-> ROOT_RPC, id |-> <<>>, ns |-> 0, child |-> CHILD_CLOSE]
HelloDoc == [root |-> ROOT_HELLO, id |-> <<>>, ns |-> 0, child |-> 0]
Docs == {RpcDoc, HelloDoc}

RECURSIVE Decimal(_)
\* printf's %d and %llu of a value n >= 0
Decimal(n) ==
    IF n < 10 THEN <<ZERO + n>>
    ELSE Append(Decimal(n \div 10), ZERO + (n % 10))

\* sprintf (msg_id_str, "%llu", v) of a 64-bit residue v
DecimalU64(v) ==
    IF v >= 0 THEN Decimal(v)
    ELSE TwoTo64High \o Decimal(TwoTo64Low + v)

Opt(b) == IF b = 0 THEN <<>> ELSE <<b>>

\* A dump that leaves the message-id attribute out.
XmlDumpNoId(m) ==
    <<LT, m.root>> \o Opt(m.ns) \o Opt(m.child) \o <<GT, LF>>

\* xmlDocDumpFormatMemory (msg->doc, &text, &len, 1)
XmlDump(m) ==
    <<LT, m.root>> \o m.id \o Opt(m.ns) \o Opt(m.child) \o <<GT, LF>>

\* snprintf (buf, 1024, "\n#%d\n", (int) strlen (text))
ChunkHeader(n) == <<LF, HASH>> \o Decimal(n) \o <<LF>>

\* Bytes on the wire carry the number of the call that wrote them.
Tag(bytes, n) == [i \in 1 .. Len(bytes) |-> [b |-> bytes[i], by |-> n]]
Bytes(w) == [i \in 1 .. Len(w) |-> w[i].b]

(***************************************************************************)
(* nc_session_send_rpc and nc_session_send, one step per shared access:    *)
(* the code takes no lock (session.c:722, "TODO: lock for threads").       *)
(***************************************************************************)
\* The state of a thread that is not inside nc_session_send_rpc.
SendIdle ==
    /\ spc = [t \in Threads |-> "idle"]
    /\ smsg = [t \in Threads |-> NoMsg]
    /\ stmp = [t \in Threads |-> -1]
    /\ sbuf = [t \in Threads |-> <<>>]
    /\ sstage = [t \in Threads |-> "none"]
    /\ sc = [t \in Threads |-> 0]
    /\ sendret = [t \in Threads |-> EXIT_SUCCESS]
    /\ sret = [t \in Threads |-> 0]
    /\ sbefore = [t \in Threads |-> 0]
    /\ scall = [t \in Threads |-> 0]
    /\ wire = <<>>
    /\ log = <<>>
    /\ ncalls = 0
    /\ shorts = 0
    /\ werrs = 0

\* session.c:717-723: the argument check and nc_msg_dup.
SendRpcCallBody(t, d) ==
    /\ spc[t] \in {"idle", "done"}
    /\ ncalls < limit
    /\ ncalls' = ncalls + 1
    /\ sbefore' = [sbefore EXCEPT ![t] = msgid]
    /\ scall' = [scall EXCEPT ![t] = ncalls + 1]
    /\ stmp' = [stmp EXCEPT ![t] = -1]
    /\ sc' = [sc EXCEPT ![t] = 0]
    /\ sbuf' = [sbuf EXCEPT ![t] = <<>>]
    /\ sstage' = [sstage EXCEPT ![t] = "none"]
    /\ sendret' = [sendret EXCEPT ![t] = EXIT_SUCCESS]
    /\ IF ~hostname
       THEN /\ spc' = [spc EXCEPT ![t] = "done"]
            /\ sret' = [sret EXCEPT ![t] = 0]
            /\ smsg' = [smsg EXCEPT ![t] = NoMsg]
            /\ log' = Append(log, [call |-> ncalls + 1, root |-> d.root, stamped |-> -1,
                                   ret |-> 0, before |-> msgid,
                                   after |-> msgid, sent |-> FALSE])
       ELSE /\ spc' = [spc EXCEPT ![t] = "stamp"]
            /\ smsg' = [smsg EXCEPT ![t] = d]
            /\ UNCHANGED <<sret, log>>
    /\ UNCHANGED <<msgid, version, ssh_channel, fd_output, hostname, wire,
                   limit, shorts, werrs>>

SendRpcCall(t, d) == SendRpcCallBody(t, d) /\ UNCHANGED <<rvars, cvars, pvars>>

\* session.c:726-727: the test of the root name and the read of
\* session->msgid++.
StampLoad(t) ==
    /\ spc[t] = "stamp"
    /\ IF smsg[t].root = ROOT_RPC
       THEN /\ stmp' = [stmp EXCEPT ![t] = msgid]
            /\ spc' = [spc EXCEPT ![t] = "store"]
       ELSE /\ spc' = [spc EXCEPT ![t] = "send"]
            /\ UNCHANGED stmp
    /\ UNCHANGED <<msgid, version, ssh_channel, fd_output, hostname, smsg,
                   sbuf, sstage, sc, sendret, sret, sbefore, scall, wire, log,
                   ncalls, limit, shorts, werrs>>
    /\ UNCHANGED <<rvars, cvars, pvars>>

\* A counter that skips a value on every stamp.
IncrementedSkipping(v) == v + 2

\* The value session->msgid++ writes back.
Incremented(v) == v + 1

\* session.c:727-728: the write of session->msgid++, sprintf into
\* msg_id_str[16] and xmlSetProp.  A number of 16 digits or more overruns
\* msg_id_str: the call then either dies or goes on.
StampStore(t) ==
    /\ spc[t] = "store"
    /\ msgid' = Incremented(stmp[t])
    /\ smsg' = [smsg EXCEPT ![t].id = DecimalU64(stmp[t])]
    /\ \/ spc' = [spc EXCEPT ![t] = "send"]
       \/ /\ Len(DecimalU64(stmp[t])) + 1 > MsgIdStrSize
          /\ spc' = [spc EXCEPT ![t] = "crashed"]
    /\ UNCHANGED <<version, ssh_channel, fd_output, hostname, stmp, sbuf,
                   sstage, sc, sendret, sret, sbefore, scall, wire, log, ncalls,
                   limit, shorts, werrs>>
    /\ UNCHANGED <<rvars, cvars, pvars>>

\* session.c:732-733: xmlNewNs.
BaseNs == IF version = NETCONFV10 THEN NS_BASE10 ELSE NS_BASE11

\* session.c:323-337: nc_session_send up to its first write loop.
SendEnter(t) ==
    /\ spc[t] = "send"
    /\ smsg' = [smsg EXCEPT ![t].ns = BaseNs]
    /\ IF ~ssh_channel /\ fd_output = -1
       THEN /\ sendret' = [sendret EXCEPT ![t] = EXIT_FAILURE]
            /\ spc' = [spc EXCEPT ![t] = "ret"]
            /\ UNCHANGED <<sbuf, sstage, sc>>
       ELSE /\ spc' = [spc EXCEPT ![t] = "write"]
            /\ sc' = [sc EXCEPT ![t] = 0]
            /\ IF version = NETCONFV11
               THEN /\ sstage' = [sstage EXCEPT ![t] = "header"]
                    /\ sbuf' = [sbuf EXCEPT ![t] =
                                  ChunkHeader(Len(XmlDump(smsg'[t])))]
               ELSE /\ sstage' = [sstage EXCEPT ![t] = "text"]
                    /\ sbuf' = [sbuf EXCEPT ![t] = XmlDump(smsg'[t])]
            /\ UNCHANGED sendret
    /\ UNCHANGED <<msgid, version, ssh_channel, fd_output, hostname, stmp,
                   sret, sbefore, scall, wire, log, ncalls, limit, shorts, werrs>>
    /\ UNCHANGED <<rvars, cvars, pvars>>

\* What &(buf[c]) points at: the rest of buf, or, for a negative c, the
\* bytes before buf (unknown) followed by buf.
RECURSIVE Unknown(_)
Unknown(n) == IF n <= 0 THEN <<>> ELSE <<GARBAGE>> \o Unknown(n - 1)

BufFrom(buf, c) ==
    IF c < 0 THEN Unknown(-c) \o buf ELSE SubSeq(buf, c + 1, Len(buf))

\* session.c:344-355: what follows a write loop whose c reached strlen.
AfterLoop(t) ==
    IF sstage[t] = "header"
    THEN /\ sstage' = [sstage EXCEPT ![t] = "text"]
         /\ sbuf' = [sbuf EXCEPT ![t] = XmlDump(smsg[t])]
         /\ sc' = [sc EXCEPT ![t] = 0]
         /\ UNCHANGED <<spc, sendret>>
    ELSE IF sstage[t] = "text"
    THEN /\ sstage' = [sstage EXCEPT ![t] = "end"]
         /\ sbuf' = [sbuf EXCEPT ![t] =
                       IF version = NETCONFV11 THEN NC_V11_END_MSG
                       ELSE NC_V10_END_MSG]
         /\ sc' = [sc EXCEPT ![t] = 0]
         /\ UNCHANGED <<spc, sendret>>
    ELSE /\ sstage' = [sstage EXCEPT ![t] = "none"]
         /\ sendret' = [sendret EXCEPT ![t] = EXIT_SUCCESS]
         /\ spc' = [spc EXCEPT ![t] = "ret"]
         /\ UNCHANGED <<sbuf, sc>>

\* The value c has after NC_WRITE added the write primitive's result r.
Advance(c, r) == c + r

\* session.c:65-69 and the do-while loops at 334-336, 341-343, 353-355:
\* one NC_WRITE that wrote r bytes, and the loop test.
WriteBytes(t) ==
    /\ spc[t] = "write"
    /\ \E r \in 1 .. Len(BufFrom(sbuf[t], sc[t])) :
          /\ \/ /\ r = Len(BufFrom(sbuf[t], sc[t]))
                /\ UNCHANGED shorts
             \/ /\ r < Len(BufFrom(sbuf[t], sc[t]))
                /\ shorts < MaxShortWrites
                /\ shorts' = shorts + 1
          /\ wire' = wire \o Tag(SubSeq(BufFrom(sbuf[t], sc[t]), 1, r), scall[t])
          /\ IF Advance(sc[t], r) = Len(sbuf[t])
             THEN AfterLoop(t)
             ELSE /\ sc' = [sc EXCEPT ![t] = Advance(sc[t], r)]
                  /\ UNCHANGED <<spc, sbuf, sstage, sendret>>
    /\ UNCHANGED <<msgid, version, ssh_channel, fd_output, hostname, smsg,
                   stmp, sret, sbefore, scall, log, ncalls, limit, werrs>>
    /\ UNCHANGED <<rvars, cvars, pvars>>

\* One NC_WRITE whose write primitive returned an error (-1): c += -1, and
\* the loop goes on.
WriteError(t) ==
    /\ spc[t] = "write"
    /\ sc[t] >= 0
    /\ werrs < MaxWriteErrs
    /\ werrs' = werrs + 1
    /\ sc' = [sc EXCEPT ![t] = Advance(sc[t], -1)]
    /\ UNCHANGED <<msgid, version, ssh_channel, fd_output, hostname, spc,
                   smsg, stmp, sbuf, sstage, sendret, sret, sbefore, scall, wire,
                   log, ncalls, limit, shorts>>
    /\ UNCHANGED <<rvars, cvars, pvars>>

\* One NC_WRITE with a negative c: &(buf[c]) is outside buf.  Besides the
\* write of WriteBytes, the read outside the buffer may kill the process,
\* or find a zero byte there (strlen is 0, nothing is written, c stays).
WriteOutside(t) ==
    /\ spc[t] = "write"
    /\ sc[t] < 0
    /\ \/ spc' = [spc EXCEPT ![t] = "crashed"]
       \/ UNCHANGED spc
    /\ UNCHANGED <<msgid, version, ssh_channel, fd_output, hostname, smsg,
                   stmp, sbuf, sstage, sc, sendret, sret, sbefore, scall, wire,
                   log, ncalls, limit, shorts, werrs>>
    /\ UNCHANGED <<rvars, cvars, pvars>>

\* The value session->msgid-- writes back.
Decremented(v) == v - 1

\* The value nc_session_send_rpc returns on success.
Returned(v) == v

\* session.c:738-745: nc_msg_free and the return.
SendReturn(t) ==
    /\ spc[t] = "ret"
    /\ spc' = [spc EXCEPT ![t] = "done"]
    /\ IF sendret[t] # EXIT_SUCCESS
       THEN /\ msgid' = Decremented(msgid)
            /\ sret' = [sret EXCEPT ![t] = 0]
       ELSE /\ sret' = [sret EXCEPT ![t] = Returned(msgid)]
            /\ UNCHANGED msgid
    /\ log' = Append(log, [call |-> scall[t], root |-> smsg[t].root,
                           stamped |-> stmp[t], ret |-> sret'[t],
                           before |-> sbefore[t], after |-> msgid',
                           sent |-> sendret[t] = EXIT_SUCCESS])
    /\ UNCHANGED <<version, ssh_channel, fd_output, hostname, smsg, stmp,
                   sbuf, sstage, sc, sendret, sbefore, scall, wire, ncalls, limit, shorts,
                   werrs>>
    /\ UNCHANGED <<rvars, cvars, pvars>>

SendStep(t) ==
    \/ \E d \in Docs : SendRpcCall(t, d)
    \/ StampLoad(t)
    \/ StampStore(t)
    \/ SendEnter(t)
    \/ WriteBytes(t)
    \/ WriteError(t)
    \/ WriteOutside(t)
    \/ SendReturn(t)

(***************************************************************************)
(* The receive path: nc_session_read_until, nc_session_read_len,           *)
(* nc_session_receive and nc_session_recv_reply, one step per read of the  *)
(* transport.  Streams hold no zero byte (the texts are C strings).        *)
(***************************************************************************)
ReplyTypes == {"NC_REPLY_OK", "NC_REPLY_ERROR", "NC_REPLY_DATA",
               "NC_REPLY_UNKNOWN"}

NoReply == [type |-> "NC_REPLY_UNKNOWN", msgid |-> 0]
NoText == <<-1>>
NoCase == [kind |-> "none", sent |-> <<>>, chunks |-> <<>>, hdr |-> <<>>,
           trail |-> <<>>]

\* buflen = 1024, the starting buffer size
BufInit == 1024

\* The locals of a process that is not inside nc_session_recv_reply.
RecvLocalsIdle ==
    /\ bufFreed = FALSE
    /\ zeroed = 0
    /\ rdbuf = <<>>
    /\ endtag = <<>>
    /\ rwhere = "none"
    /\ rpc = "idle"
    /\ text = <<>>
    /\ chunk_length = 0
    /\ lenbuf = <<>>
    /\ rret = EXIT_SUCCESS
    /\ reply = "unset"
    /\ rmsg = NoReply
    /\ replyRet = 0
    /\ rtext = NoText
    /\ rparsed = NoMsg
    /\ lenread = 0
    /\ rfail = FALSE
    /\ zrounds = 0

\* No peer, and a read_until that never ran.
RecvIdle ==
    /\ input = <<>>
    /\ eof = FALSE
    /\ buflen = 0
    /\ rcase = NoCase
    /\ RecvLocalsIdle

\* The C string that starts at the first byte of s: the bytes before the
\* first zero byte.
CStr(s) ==
    LET nuls == {i \in 1 .. Len(s) : s[i] = NUL}
    IN  IF nuls = {} THEN s
        ELSE SubSeq(s, 1, (CHOOSE i \in nuls : \A j \in nuls : i <= j) - 1)

\* isspace
IsSpace(b) == b \in {9, 10, 11, 12, 13, SP}

RECURSIVE SkipSpace(_)
SkipSpace(s) ==
    IF s # <<>> /\ IsSpace(Head(s)) THEN SkipSpace(Tail(s)) ELSE s

RECURSIVE DigitsPrefix(_)
DigitsPrefix(s) ==
    IF s # <<>> /\ Head(s) \in Digits
    THEN <<Head(s)>> \o DigitsPrefix(Tail(s))
    ELSE <<>>

RECURSIVE DigitsValue(_)
DigitsValue(ds) ==
    IF ds = <<>> THEN 0
    ELSE 10 * DigitsValue(SubSeq(ds, 1, Len(ds) - 1)) + (ds[Len(ds)] - ZERO)

\* strtoul (s, NULL, 10) and strtoull (s, NULL, 10) as a 64-bit residue:
\* white space, an optional sign, then the longest run of digits; what
\* follows the digits is ignored, and no digit at all gives 0.
Strtoul(s) ==
    LET a == SkipSpace(s)
        signed == a # <<>> /\ Head(a) \in {PLUS, MINUS}
        v == DigitsValue(DigitsPrefix(IF signed THEN Tail(a) ELSE a))
    IN  IF signed /\ Head(a) = MINUS THEN -v ELSE v

(***************************************************************************)
(* The XML library on the miniature syntax.                                *)
(***************************************************************************)
RootBytes == {ROOT_RPC, ROOT_REPLY, ROOT_HELLO}
ChildBytes == {CHILD_OK, CHILD_ERROR, CHILD_DATA, CHILD_OTHER, CHILD_CLOSE}
NsBytes == {NS_BASE10, NS_BASE11}

RECURSIVE TrimLeft(_)
TrimLeft(s) == IF s # <<>> /\ Head(s) = LF THEN TrimLeft(Tail(s)) ELSE s

RECURSIVE TrimRight(_)
TrimRight(s) ==
    IF s # <<>> /\ s[Len(s)] = LF
    THEN TrimRight(SubSeq(s, 1, Len(s) - 1))
    ELSE s

\* xmlReadDoc (text, ...): the document, or NoMsg (NULL) for a text that is
\* not one well-formed document.
XmlReadDoc(t) ==
    LET s == TrimRight(TrimLeft(t))
        n == Len(s)
        inner == SubSeq(s, 3, n - 1)
        ds == DigitsPrefix(inner)
        rest == SubSeq(inner, Len(ds) + 1, Len(inner))
    IN  IF /\ n >= 3
           /\ s[1] = LT
           /\ s[n] = GT
           /\ s[2] \in RootBytes
           /\ \/ rest = <<>>
              \/ Len(rest) = 1 /\ rest[1] \in NsBytes \cup ChildBytes
              \/ Len(rest) = 2 /\ rest[1] \in NsBytes /\ rest[2] \in ChildBytes
        THEN [root |-> s[2],
              id |-> ds,
              ns |-> IF rest # <<>> /\ rest[1] \in NsBytes THEN rest[1] ELSE 0,
              child |-> IF rest # <<>> /\ rest[Len(rest)] \in ChildBytes
                        THEN rest[Len(rest)] ELSE 0]
        ELSE NoMsg

\* session.c:667-676: xmlGetProp of message-id and strtoull.
MsgIdOf(doc) == IF doc.id = <<>> THEN 0 ELSE Strtoul(doc.id)

\* session.c:679-692: the type of a document whose root has a first child,
\* or whose root is not rpc-reply.
ReplyType(doc) ==
    IF doc.root = ROOT_REPLY
    THEN IF doc.child = CHILD_OK THEN "NC_REPLY_OK"
         ELSE IF doc.child = CHILD_ERROR THEN "NC_REPLY_ERROR"
         ELSE IF doc.child = CHILD_DATA THEN "NC_REPLY_DATA"
         ELSE "NC_REPLY_UNKNOWN"
    ELSE "NC_REPLY_UNKNOWN"

(***************************************************************************)
(* nc_session_read_until.                                                  *)
(***************************************************************************)
\* session.c:375, 399 (454, 486): there is a way to read.
CanRead == ssh_channel \/ fd_input # -1

\* session.c:442-453: a call of nc_session_read_until up to its loop.  The
\* memset writes to buf; if buf was freed by an earlier call, the write may
\* kill the process or go unnoticed.
EnterUntil(tag, where) ==
    /\ buflen' = IF buflen = 0 THEN BufInit ELSE buflen
    /\ zeroed' = buflen'
    /\ rdbuf' = <<>>
    /\ endtag' = tag
    /\ rwhere' = where
    /\ \/ rpc' = "until"
       \/ bufFreed /\ rpc' = "crashed"

\* The values buf[rd] can have when strcmp reads it as the end of the
\* string: 0 inside the cleared part of the buffer; anything in the part
\* realloc added, and one past the end of the buffer (rd = buflen).
TermBytes(rd) == IF rd < zeroed THEN {NUL} ELSE {NUL, GARBAGE}

\* session.c:519-524: rd >= strlen (endtag) and
\* strcmp (endtag, &(buf[rd - strlen (endtag)])) == 0
Matches(nb, tag, term) ==
    /\ Len(nb) >= Len(tag)
    /\ SubSeq(nb, Len(nb) - Len(tag) + 1, Len(nb)) = tag
    /\ term = NUL

\* session.c:587: the index at which nc_session_receive cuts the text.
StripIndex(len) == len - 1 - Len(NC_V10_END_MSG)

\* session.c:424, 718: failure before *msg is set.
ReturnFailure ==
    /\ rpc' = "done"
    /\ rret' = EXIT_FAILURE
    /\ replyRet' = 0
    /\ UNCHANGED <<reply, rmsg>>

\* A text that keeps only the last chunk.
AccumulatedLast(t, chunk) == CStr(chunk)

\* session.c:628-638: realloc, strcat (text, chunk).
Accumulated(t, chunk) == t \o CStr(chunk)

\* session.c:584-625: what nc_session_receive does with the buffer nb of a
\* read_until that found its end tag.
UntilFound(nb) ==
    IF rwhere = "v10"
    THEN /\ rdbuf' = nb
         /\ UNCHANGED <<buflen, zeroed, endtag, rwhere, chunk_length, lenbuf,
                        rret, reply, rmsg, replyRet>>
         /\ IF StripIndex(Len(nb)) >= 0
            THEN /\ text' = SubSeq(CStr(nb), 1, StripIndex(Len(nb)))
                 /\ rpc' = "parse"
            ELSE \* text[-1] = 0 writes before the allocation
                 /\ text' = CStr(nb)
                 /\ rpc' \in {"parse", "crashed"}
    ELSE IF rwhere = "hash"
    THEN /\ EnterUntil(<<LF>>, "hdr")
         /\ UNCHANGED <<text, chunk_length, lenbuf, rret, reply, rmsg,
                        replyRet>>
    ELSE IF CStr(nb) = <<HASH, LF>>
    THEN /\ rdbuf' = nb
         /\ rpc' = "parse"
         /\ UNCHANGED <<buflen, zeroed, endtag, rwhere, text, chunk_length,
                        lenbuf, rret, reply, rmsg, replyRet>>
    ELSE /\ rdbuf' = nb
         /\ chunk_length' = Strtoul(CStr(nb))
         /\ lenbuf' = <<>>
         /\ UNCHANGED <<buflen, zeroed, endtag, rwhere, text>>
         /\ IF chunk_length' = 0
            THEN ReturnFailure
            ELSE IF chunk_length' > 0
            THEN /\ rpc' = "len"
                 /\ UNCHANGED <<rret, reply, rmsg, replyRet>>
            ELSE IF chunk_length' = -1
            THEN \* malloc (0): NULL, or a block no byte fits in
                 \/ ReturnFailure
                 \/ /\ rpc' = "len"
                    /\ UNCHANGED <<rret, reply, rmsg, replyRet>>
            ELSE \* malloc of almost 2^64 bytes fails
                 ReturnFailure

\* session.c:456, 488, 517-551: one read of one byte into buf[rd], the
\* comparison with the end tag and the resize.
UntilByte ==
    /\ rpc = "until"
    /\ CanRead
    /\ input # <<>>
    /\ input' = Tail(input)
    /\ LET nb == Append(rdbuf, Head(input))
       IN  \E term \in TermBytes(Len(nb)) :
              IF Matches(nb, endtag, term)
              THEN UntilFound(nb)
              ELSE /\ rdbuf' = nb
                   /\ buflen' = IF Len(nb) = buflen THEN 2 * buflen
                                ELSE buflen
                   /\ UNCHANGED <<zeroed, endtag, rwhere, rpc, text,
                                  chunk_length, lenbuf, rret, reply, rmsg,
                                  replyRet>>
    /\ UNCHANGED <<fd_input, eof, bufFreed, rtext, rparsed, lenread, rfail,
                   zrounds, rcase>>
    /\ UNCHANGED <<svars, cvars, pvars>>

(***************************************************************************)
(* nc_session_read_len.                                                    *)
(***************************************************************************)
Min(a, b) == IF a < b THEN a ELSE b

\* chunk_length - rd, the count handed to the read primitive; a negative
\* residue is a count larger than any stream.
LenWanted == IF chunk_length < 0 THEN Len(input) ELSE chunk_length - Len(lenbuf)

\* session.c:377, 401, 422-430 and 628-642: one read of k bytes into
\* buf[rd]; when rd reaches chunk_length, the chunk is appended to text and
\* the loop of nc_session_receive reads the next header.  With the block of
\* malloc (0) every byte stored is outside it.
LenBytes ==
    /\ rpc = "len"
    /\ CanRead
    /\ input # <<>>
    /\ \E k \in 1 .. Min(LenWanted, Len(input)) :
          /\ input' = SubSeq(input, k + 1, Len(input))
          /\ lenbuf' = lenbuf \o SubSeq(input, 1, k)
          /\ lenread' = lenread + k
          /\ IF Len(lenbuf') = chunk_length
             THEN /\ text' = Accumulated(text, lenbuf')
                  /\ EnterUntil(<<LF, HASH>>, "hash")
             ELSE /\ \/ UNCHANGED rpc
                     \/ chunk_length < 0 /\ rpc' = "crashed"
                  /\ UNCHANGED <<text, buflen, zeroed, rdbuf, endtag, rwhere>>
    /\ UNCHANGED <<fd_input, eof, bufFreed, chunk_length, rret, reply, rmsg,
                   replyRet, rtext, rparsed, rfail, zrounds, rcase>>
    /\ UNCHANGED <<svars, cvars, pvars>>

(***************************************************************************)
(* What the transport does besides delivering bytes.                       *)
(***************************************************************************)
\* session.c:378-380, 396-397, 403-405 (457-459, 483-484, 490-492):
\* EAGAIN, or 0 bytes from a channel that is not at its end: sleep, retry.
ReadAgain ==
    /\ rpc \in {"until", "len"}
    /\ CanRead
    /\ ~(input = <<>> /\ eof)
    /\ UNCHANGED vars

\* session.c:401, 422 (488, 517): read () of a file descriptor returns 0 at
\* the end of the stream; rd += 0 and the loop goes round.
ReadZeroFd ==
    /\ rpc \in {"until", "len"}
    /\ ~ssh_channel
    /\ fd_input # -1
    /\ input = <<>>
    /\ eof
    /\ zrounds' = 1 - zrounds
    /\ UNCHANGED <<fd_input, input, eof, buflen, bufFreed, zeroed, rdbuf, endtag,
                   rwhere, rpc, text, chunk_length, lenbuf, rret, reply, rmsg,
                   replyRet, rtext, rparsed, lenread, rfail, rcase>>
    /\ UNCHANGED <<svars, cvars, pvars>>

\* The return of a failed read: read_until frees its static buf and leaves
\* buflen as it is; nc_session_receive returns EXIT_FAILURE.
ReadFailed ==
    /\ bufFreed' = (bufFreed \/ rpc = "until")
    /\ rfail' = TRUE
    /\ ReturnFailure
    /\ UNCHANGED <<fd_input, input, eof, buflen, zeroed, rdbuf, endtag, rwhere,
                   text, chunk_length, lenbuf, rtext, rparsed, lenread, zrounds,
                   rcase>>
    /\ UNCHANGED <<svars, cvars, pvars>>

\* session.c:381-387, 406-411 (460-470, 493-502): the read primitive
\* reports an error.
ReadError ==
    /\ rpc \in {"until", "len"}
    /\ CanRead
    /\ ReadFailed

\* session.c:388-395 (471-482): 0 bytes and libssh2_channel_eof.
ReadEofSsh ==
    /\ rpc \in {"until", "len"}
    /\ ssh_channel
    /\ input = <<>>
    /\ eof
    /\ ReadFailed

\* session.c:414-419 (505-514): no channel and no descriptor.
ReadNoWay ==
    /\ rpc \in {"until", "len"}
    /\ ~CanRead
    /\ ReadFailed

(***************************************************************************)
(* nc_session_receive and nc_session_recv_reply.                           *)
(***************************************************************************)
\* session.c:699-703 and 577-592: the call, the argument check and the
\* first read_until of the session's framing.
RecvCallBody ==
    /\ rpc = "idle"
    /\ IF ~hostname
       THEN /\ ReturnFailure
            /\ UNCHANGED <<buflen, zeroed, rdbuf, endtag, rwhere>>
       ELSE /\ IF version = NETCONFV10
               THEN EnterUntil(NC_V10_END_MSG, "v10")
               ELSE EnterUntil(<<LF, HASH>>, "hash")
            /\ UNCHANGED <<rret, reply, rmsg, replyRet>>
    /\ UNCHANGED <<fd_input, input, eof, bufFreed, text, chunk_length, lenbuf,
                   rtext, rparsed, lenread, rfail, zrounds, rcase>>

RecvCall == RecvCallBody /\ UNCHANGED <<svars, cvars, pvars>>

\* session.c:695-696 and 704-708: *msg = retval and the return of the
\* message id.
ReturnMsg(handle, ty, id) ==
    /\ rpc' = "done"
    /\ rret' = EXIT_SUCCESS
    /\ reply' = handle
    /\ rmsg' = [type |-> ty, msgid |-> id]
    /\ replyRet' = id

\* session.c:651-696: xmlReadDoc and the reading of the document.  After a
\* failed parse the code frees retval and text, frees text again and reads
\* retval->doc->children; for an <rpc-reply> without a child it reads the
\* name of a NULL node.  Either kills the process, or goes on with whatever
\* the memory holds.
Parse ==
    /\ rpc = "parse"
    /\ rtext' = text
    /\ rparsed' = XmlReadDoc(text)
    /\ LET doc == XmlReadDoc(text)
       IN  IF doc = NoMsg
           THEN \/ /\ rpc' = "crashed"
                   /\ UNCHANGED <<rret, reply, rmsg, replyRet>>
                \/ \E ty \in ReplyTypes : ReturnMsg("dangling", ty, 0)
           ELSE IF doc.root = ROOT_REPLY /\ doc.child = 0
           THEN \/ /\ rpc' = "crashed"
                   /\ UNCHANGED <<rret, reply, rmsg, replyRet>>
                \/ \E ty \in ReplyTypes : ReturnMsg("msg", ty, MsgIdOf(doc))
           ELSE ReturnMsg("msg", ReplyType(doc), MsgIdOf(doc))
    /\ UNCHANGED <<fd_input, input, eof, buflen, bufFreed, zeroed, rdbuf,
                   endtag, rwhere, text, chunk_length, lenbuf, lenread, rfail,
                   zrounds, rcase>>
    /\ UNCHANGED <<svars, cvars, pvars>>

RecvStep ==
    \/ RecvCall
    \/ UntilByte
    \/ LenBytes
    \/ ReadAgain
    \/ ReadZeroFd
    \/ ReadError
    \/ ReadEofSsh
    \/ ReadNoWay
    \/ Parse

(***************************************************************************)
(* nc_session_close.                                                       *)
(***************************************************************************)
\* session.c:281-287: with a channel, nc_rpc_closesession and the call of
\* nc_session_send_rpc; without one, straight to the teardown.
CloseCall ==
    /\ cpc = "idle"
    /\ IF ssh_channel
       THEN /\ SendRpcCallBody(1, RpcDoc)
            /\ cpc' = "sending"
       ELSE /\ cpc' = "teardown"
            /\ UNCHANGED svars
    /\ UNCHANGED <<rvars, pvars>>

\* session.c:287-288: the test of the message id nc_session_send_rpc
\* returned, and the call of nc_session_recv_reply with the local reply,
\* which was given no value.
CloseAfterSend ==
    /\ cpc = "sending"
    /\ spc[1] = "done"
    /\ IF sret[1] # 0
       THEN /\ RecvCallBody
            /\ cpc' = "receiving"
       ELSE /\ cpc' = "teardown"
            /\ UNCHANGED rvars
    /\ UNCHANGED <<svars, pvars>>

\* session.c:289: nc_reply_free (reply).  A reply that nc_session_receive
\* did not set is an indeterminate pointer, one it set after its frees is a
\* freed one: freeing either may kill the process or go unnoticed.
CloseFreeReply ==
    /\ cpc = "receiving"
    /\ rpc = "done"
    /\ \/ cpc' = "teardown"
       \/ reply # "msg" /\ cpc' = "crashed"
    /\ UNCHANGED <<svars, rvars, pvars>>

\* session.c:291-312: the frees, close of the socket, memset and free of
\* the session.
CloseTeardown ==
    /\ cpc = "teardown"
    /\ cpc' = "closed"
    /\ ssh_channel' = FALSE
    /\ hostname' = FALSE
    /\ msgid' = 0
    /\ UNCHANGED <<version, fd_output, spc, smsg, stmp, sbuf, sstage, sc,
                   sendret, sret, sbefore, scall, wire, log, ncalls, limit,
                   shorts, werrs>>
    /\ UNCHANGED <<rvars, pvars>>

(***************************************************************************)
(* The capability set: nc_cpblts_new, nc_cpblts_add, nc_cpblts_remove,     *)
(* nc_cpblts_iter_start, nc_cpblts_iter_next and                           *)
(* nc_session_get_cpblts_default.  A URI is a number, NULLP the NULL       *)
(* pointer, UNINIT what memory holds that was never written.  list is the  *)
(* memory from the start of the storage on; its first cap entries are the  *)
(* allocation.  An access outside the allocation either kills the process  *)
(* or finds the memory as it was last written.                             *)
(***************************************************************************)
NULLP == 0
UNINIT == -1
BASE10 == 1
BASE11 == 2
WRITABLE_RUNNING == 3
CANDIDATE == 4
STARTUP == 5

URIs == {BASE10, BASE11, WRITABLE_RUNNING, CANDIDATE, STARTUP}

\* The URIs callers add, remove and make sets from.
CallerURIs == {BASE10, BASE11}

\* session.c:255-260
DefaultURIs ==
    <<BASE10, BASE10, BASE11, WRITABLE_RUNNING, CANDIDATE, STARTUP>>

\* retval->list_size = 10
ListSizeInit == 10
\* sizeof(char*)
PtrSize == 8

\* The entries of memory the model keeps: more than any call sequence
\* within the bounds reaches.
Span == MaxList + MaxAdds + Len(DefaultURIs) + 3

\* session.c:131-144: calloc, list_size = 10,
\* malloc (list_size * sizeof(char*)), list[0] = NULL.
Fresh ==
    [list |-> [i \in 0 .. Span - 1 |-> IF i = 0 THEN NULLP ELSE UNINIT],
     items |-> 0,
     list_size |-> ListSizeInit,
     cap |-> (ListSizeInit * PtrSize) \div PtrSize,
     iter |-> 0,
     oob |-> FALSE]

\* c->list[i] = v; oob records a store outside the allocation.
Store(c, i, v) ==
    [c EXCEPT !.list[i] = v, !.oob = c.oob \/ i >= c.cap]

\* The number of entries realloc (list, n) leaves room for.
Reallocated(n) == n \div PtrSize

\* session.c:150-159 and 180-188: if items == list_size, realloc (list,
\* list_size * 2) and list_size *= 2.
Grow(c) ==
    IF c.items = c.list_size
    THEN [c EXCEPT !.cap = Reallocated(c.list_size * 2),
                   !.list_size = c.list_size * 2]
    ELSE c

\* list[i] of the caller's NULL-terminated list l.
ItemAt(l, i) == IF i < Len(l) THEN l[i + 1] ELSE NULLP

\* session.c:148-160: the body of the loop of nc_cpblts_new.
NewBody(c, i, item) ==
    Store(Grow([Store(c, i, item) EXCEPT !.items = @ + 1]), i + 1, NULLP)

RECURSIVE NewLoop(_, _, _, _)
\* session.c:147: for (i = 0, item = list[i]; item != NULL;
\* item = list[i++]): the step reads list[i] and then increments i.
NewLoop(c, l, i, item) ==
    IF item = NULLP THEN c
    ELSE NewLoop(NewBody(c, i, item), l, i + 1, ItemAt(l, i))

\* session.c:125-165
CpbltsNewOf(l) == NewLoop(Fresh, l, 0, ItemAt(l, 0))

\* The index of the terminator nc_cpblts_add writes, items being the count
\* after the increment.
AddTerminatorAt(n) == n + 1

\* session.c:167-192
CpbltsAddOf(c, u) ==
    IF c.items > c.list_size
    THEN [c |-> c, ret |-> EXIT_FAILURE]
    ELSE LET c1 == Grow([Store(c, c.items, u) EXCEPT !.items = @ + 1])
         IN  [c |-> Store(c1, AddTerminatorAt(c1.items), NULLP),
              ret |-> EXIT_SUCCESS]

\* session.c:207-211: the index the search loop stops at.
FoundAt(c, u) ==
    LET hits == {i \in 0 .. c.items - 1 : c.list[i] = u}
    IN  IF hits = {} THEN c.items
        ELSE CHOOSE i \in hits : \A j \in hits : i <= j

\* The count nc_cpblts_remove leaves in items after it removed an entry.
ItemsAfterRemove(n) == n

\* session.c:194-222.  The search reads list[0 .. i]; an entry outside the
\* allocation, or one never written, is an access outside allocated
\* storage.
CpbltsRemoveOf(c, u) ==
    IF c.items > c.list_size
    THEN [c |-> c, ret |-> EXIT_FAILURE]
    ELSE LET i == FoundAt(c, u)
             last == c.items - 1
             bad == \E j \in 0 .. (IF i < c.items THEN i ELSE last) :
                       j >= c.cap \/ c.list[j] = UNINIT
             c0 == [c EXCEPT !.oob = bad]
         IN  IF i < c.items
             THEN [c |-> [Store(Store(c0, i, c.list[last]), last, NULLP)
                            EXCEPT !.list_size = @ - 1,
                                   !.items = ItemsAfterRemove(@)],
                   ret |-> EXIT_SUCCESS]
             ELSE [c |-> c0, ret |-> EXIT_SUCCESS]

RECURSIVE AddAll(_, _)
\* session.c:255-260: nc_cpblts_add of each URI of us in turn.
AddAll(c, us) ==
    IF us = <<>> THEN c ELSE AddAll(CpbltsAddOf(c, Head(us)).c, Tail(us))

\* No capability set was made.
CpbltsNone ==
    /\ list = Fresh.list
    /\ items = 0
    /\ list_size = 0
    /\ iter = 0
    /\ cap = 0
    /\ cst = "none"
    /\ itst = "idle"
    /\ out = <<>>
    /\ given = <<>>
    /\ want = <<>>
    /\ prev = [items |-> 0, list_size |-> 0, list |-> Fresh.list]
    /\ lastop = [op |-> "none", uri |-> NULLP, ret |-> EXIT_SUCCESS]
    /\ nadds = 0
    /\ nrems = 0

\* The structure as a record, and the assignment of a call's result c to
\* the structure; a call that accessed memory outside the allocation may
\* have killed the process.
Struct ==
    [list |-> list, items |-> items, list_size |-> list_size, cap |-> cap,
     iter |-> iter, oob |-> FALSE]

Becomes(c) ==
    /\ list' = c.list
    /\ items' = c.items
    /\ list_size' = c.list_size
    /\ cap' = c.cap
    /\ iter' = c.iter
    /\ prev' = [items |-> items, list_size |-> list_size, list |-> list]
    /\ \/ cst' = "live"
       \/ c.oob /\ cst' = "crashed"
    /\ itst' = "idle"
    /\ out' = <<>>

\* What the set should hold after u's first occurrence left w: the last
\* element takes the removed slot.
RECURSIVE FirstIndex(_, _, _)
FirstIndex(w, u, i) ==
    IF i > Len(w) THEN 0 ELSE IF w[i] = u THEN i ELSE FirstIndex(w, u, i + 1)

WithoutFirst(w, u) ==
    LET k == FirstIndex(w, u, 1)
        n == Len(w)
    IN  IF k = 0 THEN w
        ELSE IF k = n THEN SubSeq(w, 1, n - 1)
        ELSE [i \in 1 .. n - 1 |-> IF i = k THEN w[n] ELSE w[i]]

\* nc_cpblts_new (l)
CpbltsNew(l) ==
    /\ cst = "none"
    /\ Becomes(CpbltsNewOf(l))
    /\ given' = l
    /\ want' = l
    /\ lastop' = [op |-> "new", uri |-> NULLP, ret |-> EXIT_SUCCESS]
    /\ UNCHANGED <<nadds, nrems>>
    /\ UNCHANGED <<svars, rvars, cvars>>

\* nc_session_get_cpblts_default ()
CpbltsDefault ==
    /\ cst = "none"
    /\ Becomes(AddAll(CpbltsNewOf(<<>>), DefaultURIs))
    /\ given' = <<>>
    /\ want' = DefaultURIs
    /\ lastop' = [op |-> "default", uri |-> NULLP, ret |-> EXIT_SUCCESS]
    /\ UNCHANGED <<nadds, nrems>>
    /\ UNCHANGED <<svars, rvars, cvars>>

\* nc_cpblts_add (c, u)
CpbltsAdd(u) ==
    /\ cst = "live"
    /\ itst = "idle"
    /\ nadds < MaxAdds
    /\ nadds' = nadds + 1
    /\ LET r == CpbltsAddOf(Struct, u)
       IN  /\ Becomes(r.c)
           /\ lastop' = [op |-> "add", uri |-> u, ret |-> r.ret]
           /\ want' = IF r.ret = EXIT_SUCCESS THEN Append(want, u) ELSE want
    /\ UNCHANGED <<given, nrems>>
    /\ UNCHANGED <<svars, rvars, cvars>>

\* nc_cpblts_remove (c, u)
CpbltsRemove(u) ==
    /\ cst = "live"
    /\ itst = "idle"
    /\ nrems < MaxRemoves
    /\ nrems' = nrems + 1
    /\ LET r == CpbltsRemoveOf(Struct, u)
       IN  /\ Becomes(r.c)
           /\ lastop' = [op |-> "remove", uri |-> u, ret |-> r.ret]
           /\ want' = IF r.ret = EXIT_SUCCESS THEN WithoutFirst(want, u)
                      ELSE want
    /\ UNCHANGED <<given, nadds>>
    /\ UNCHANGED <<svars, rvars, cvars>>

\* session.c:225-231: nc_cpblts_iter_start
CpbltsIterStart ==
    /\ cst = "live"
    /\ itst # "running"
    /\ iter' = 0
    /\ itst' = "running"
    /\ out' = <<>>
    /\ UNCHANGED <<list, items, list_size, cap, cst, given, want, prev, lastop,
                   nadds, nrems>>
    /\ UNCHANGED <<svars, rvars, cvars>>

\* session.c:233-244: nc_cpblts_iter_next.  strdup of a NULL entry kills
\* the process or returns NULL, which the caller takes for the end; strdup
\* of an entry never written kills it or copies whatever is there; an entry
\* outside the allocation is read as it was last written, or kills it.
CpbltsIterNext ==
    /\ cst = "live"
    /\ itst = "running"
    /\ IF iter > items - 1
       THEN /\ itst' = "ended"
            /\ UNCHANGED <<iter, out, cst>>
       ELSE /\ iter' = iter + 1
            /\ IF list[iter] = NULLP
               THEN \/ cst' = "crashed" /\ UNCHANGED <<itst, out>>
                    \/ itst' = "ended" /\ UNCHANGED <<cst, out>>
               ELSE /\ out' = Append(out, list[iter])
                    /\ UNCHANGED itst
                    /\ \/ UNCHANGED cst
                       \/ /\ list[iter] = UNINIT \/ iter >= cap
                          /\ cst' = "crashed"
    /\ UNCHANGED <<list, items, list_size, cap, given, want, prev, lastop,
                   nadds, nrems>>
    /\ UNCHANGED <<svars, rvars, cvars>>

\* The lists of at most MaxList URIs a set is made from.
Lists == UNION {[1 .. n -> CallerURIs] : n \in 0 .. MaxList}

\* The counter of a session the connect procedure hands over.
InitMsgid == 1

\* A session as the connect procedure can hand it over: over an SSH
\* channel, over a pair of file descriptors, or with neither; with or
\* without a peer name.
InitSession ==
    /\ msgid = InitMsgid
    /\ version \in {NETCONFV10, NETCONFV11}
    /\ ssh_channel \in BOOLEAN
    /\ fd_output \in {-1, 1}
    /\ hostname \in BOOLEAN

(***************************************************************************)
(* One caller sending one document after the other.                        *)
(***************************************************************************)
InitSend ==
    /\ InitSession
    /\ SendIdle
    /\ limit = MaxCalls
    /\ fd_input = -1
    /\ RecvIdle
    /\ cpc = "none"
    /\ CpbltsNone

NextSend == SendStep(1)

SpecSend == InitSend /\ [][NextSend]_vars

(***************************************************************************)
(* Two threads sending on one live session.                                *)
(***************************************************************************)
InitConc ==
    /\ InitSession
    /\ hostname
    /\ ssh_channel
    /\ fd_output = -1
    /\ SendIdle
    /\ limit = MaxConcCalls
    /\ fd_input = -1
    /\ RecvIdle
    /\ cpc = "none"
    /\ CpbltsNone

NextConc == \E t \in Threads : SendStep(t)

SpecConc == InitConc /\ [][NextConc]_vars

(***************************************************************************)
(* Message ids of nc_session_send_rpc.                                     *)
(***************************************************************************)
\* The completed calls that returned a message id (not 0) for an <rpc>.
SuccessfulRpcs ==
    SelectSeq(log, LAMBDA r : r.ret # 0 /\ r.root = ROOT_RPC)

\* C1: on one session whose counter starts at 1, the message-id values
\* stamped by the successful sends of <rpc> documents are 1, 2, 3, ... in
\* the order of the calls: the i-th successful send stamps i.
C1_ConsecutiveIds ==
    \A i \in 1 .. Len(SuccessfulRpcs) : SuccessfulRpcs[i].stamped = i

\* Two <rpc> documents were sent successfully, one after the other.
C1_Witness ==
    /\ Len(SuccessfulRpcs) >= 2
    /\ SuccessfulRpcs[2].stamped = 2

\* C2: every successful send of an <rpc> returns the message-id value it
\* stamped on the message.
C2_ReturnsStamped ==
    \A i \in 1 .. Len(log) :
       (log[i].ret # 0 /\ log[i].root = ROOT_RPC)
          => log[i].ret = log[i].stamped

\* C3: a call that returned 0 leaves session->msgid as it found it,
\* whatever the root of its document.
C3_FailedKeepsCounter ==
    \A i \in 1 .. Len(log) :
       log[i].ret = 0 => log[i].after = log[i].before

(***************************************************************************)
(* Concurrent senders.                                                     *)
(***************************************************************************)
\* The bytes of one call are contiguous on the wire.
Contiguous(w) ==
    \A i, j, k \in 1 .. Len(w) :
       (i < j /\ j < k /\ w[i].by = w[k].by) => w[j].by = w[i].by

\* C4: stamp, serialize and write are atomic among the senders of one
\* session: two sent <rpc> messages never carry the same message-id, the
\* frames of two calls are not interleaved on the wire, and once every
\* caller has returned the counter has advanced by one per <rpc> sent.
C4_AtomicSend ==
    /\ \A i, j \in 1 .. Len(log) :
          (i # j /\ log[i].root = ROOT_RPC /\ log[j].root = ROOT_RPC
             /\ log[i].sent /\ log[j].sent)
             => log[i].stamped # log[j].stamped
    /\ Contiguous(wire)
    /\ (\A t \in Threads : spc[t] \in {"idle", "done"})
          => msgid = InitMsgid
                + Len(SelectSeq(log, LAMBDA r : r.sent /\ r.root = ROOT_RPC))

(***************************************************************************)
(* One nc_session_recv_reply on the bytes a peer wrote.                    *)
(***************************************************************************)
PayloadBytes == {LF, HASH, ZERO + 1, RBR}

\* The byte sequences of at most MaxPayload bytes.
Payloads == UNION {[1 .. n -> PayloadBytes] : n \in 0 .. MaxPayload}

\* The documents a peer answers with.
ReplyDocs ==
    {[root |-> r, id |-> i, ns |-> 0, child |-> c] :
        r \in {ROOT_REPLY, ROOT_HELLO},
        i \in {<<>>, <<ZERO + 7>>},
        c \in {0, CHILD_OK, CHILD_ERROR, CHILD_DATA, CHILD_OTHER}}

\* Their texts, as dumped (with the final newline) and without it.
DocTexts ==
    {XmlDump(d) : d \in ReplyDocs}
       \cup {SubSeq(XmlDump(d), 1, Len(XmlDump(d)) - 1) : d \in ReplyDocs}

RECURSIVE Chunkings(_)
\* Every way of cutting p into non-empty chunks.
Chunkings(p) ==
    IF p = <<>> THEN {<<>>}
    ELSE UNION {{<<SubSeq(p, 1, k)>> \o rest :
                    rest \in Chunkings(SubSeq(p, k + 1, Len(p)))} :
                k \in 1 .. Len(p)}

RECURSIVE Chunked(_)
\* session.c:331-343, once per chunk: header and payload.
Chunked(cs) ==
    IF cs = <<>> THEN <<>>
    ELSE ChunkHeader(Len(Head(cs))) \o Head(cs) \o Chunked(Tail(cs))

\* session.c:339-355 for NETCONFV10
Encode10(p) == p \o NC_V10_END_MSG

\* session.c:330-355 for NETCONFV11, for any number of chunks
Encode11(cs) == Chunked(cs) \o NC_V11_END_MSG

\* Length fields that are zero or no decimal number.
BadLengths ==
    {<<>>, <<ZERO>>, <<ZERO, ZERO>>, <<97>>, <<97, ZERO + 1>>,
     <<ZERO + 1, 97>>, <<MINUS, ZERO + 1>>}

\* What follows a frame on the stream: nothing, or the next frame's start.
Trailers == {<<>>, <<LF, HASH>>}

\* What follows a malformed header.
BadTail == <<97, 97>> \o NC_V11_END_MSG

\* Streams of a peer that stops in the middle of a frame.
CutStreams ==
    {<<>>, <<LF, HASH>>, <<LF, HASH, ZERO + 2, LF, 97>>, <<RBR, RBR, GT>>}

RecvCases ==
    {[kind |-> "v10", sent |-> p, chunks |-> <<p>>, hdr |-> <<>>, trail |-> tr] :
        p \in Payloads \cup DocTexts, tr \in Trailers}
    \cup
    UNION {{[kind |-> "v11", sent |-> p, chunks |-> cs, hdr |-> <<>>,
             trail |-> tr] : cs \in Chunkings(p), tr \in Trailers} :
           p \in Payloads \ {<<>>}}
    \cup
    UNION {{[kind |-> "v11", sent |-> p, chunks |-> cs, hdr |-> <<>>,
             trail |-> <<>>] : cs \in {x \in Chunkings(p) : Len(x) <= 2}} :
           p \in DocTexts}
    \cup
    {[kind |-> "badhdr", sent |-> <<>>, chunks |-> cs, hdr |-> h,
      trail |-> BadTail] :
        cs \in {<<>>, <<<<97>>>>}, h \in BadLengths}
    \cup
    {[kind |-> "empty", sent |-> <<>>, chunks |-> <<>>, hdr |-> <<>>,
      trail |-> tr] : tr \in Trailers}
    \cup
    {[kind |-> "cut", sent |-> <<>>, chunks |-> <<>>, hdr |-> <<>>,
      trail |-> tr] : tr \in CutStreams}

\* The bytes the peer wrote.
StreamOf(c) ==
    IF c.kind = "v10" THEN Encode10(c.sent) \o c.trail
    ELSE IF c.kind = "cut" THEN c.trail
    ELSE IF c.kind = "badhdr"
    THEN Chunked(c.chunks) \o <<LF, HASH>> \o c.hdr \o <<LF>> \o c.trail
    ELSE Encode11(c.chunks) \o c.trail

\* The framing of the session that reads them.
VersionsOf(c) ==
    IF c.kind = "v10" THEN {NETCONFV10}
    ELSE IF c.kind = "cut" THEN {NETCONFV10, NETCONFV11}
    ELSE {NETCONFV11}

InitRecv ==
    /\ msgid = InitMsgid
    /\ fd_output = -1
    /\ SendIdle
    /\ limit = 0
    /\ cpc = "none"
    /\ CpbltsNone
    /\ \E c \in RecvCases :
          /\ rcase = c
          /\ input = StreamOf(c)
          /\ version \in VersionsOf(c)
    /\ \E way \in {<<TRUE, -1>>, <<FALSE, 1>>, <<FALSE, -1>>} :
          /\ ssh_channel = way[1]
          /\ fd_input = way[2]
    /\ hostname \in BOOLEAN
    /\ eof \in BOOLEAN
    /\ buflen \in {0, BufInit}
    /\ RecvLocalsIdle

NextRecv == RecvStep

SpecRecv == InitRecv /\ [][NextRecv]_vars

(***************************************************************************)
(* Framing round trips.                                                    *)
(***************************************************************************)
\* C5: the text the v1.0 branch hands to the parser is exactly the payload
\* the encoder framed: only the six bytes ]]>]]> are stripped.
C5_V10RoundTrip ==
    (rcase.kind = "v10" /\ rpc = "parse") => text = rcase.sent

\* C6: for a non-empty payload cut into chunks in any way, the v1.1 branch
\* hands the parser the chunks' concatenation, equal to the payload, having
\* consumed the stream up to and including the terminator and no further;
\* it fails before that only when the transport does.
C6_V11RoundTrip ==
    rcase.kind = "v11" =>
       /\ rpc = "parse" => (text = rcase.sent /\ input = rcase.trail)
       /\ rtext # NoText => rtext = rcase.sent
       /\ (rpc \in {"done", "crashed"} /\ ~rfail /\ hostname)
             => rtext = rcase.sent

\* A payload sent in several chunks, with more bytes behind the frame, has
\* been reassembled.
C6_Witness ==
    /\ rcase.kind = "v11"
    /\ Len(rcase.chunks) >= 2
    /\ rcase.trail # <<>>
    /\ rpc = "parse"
    /\ text = rcase.sent

RECURSIVE TotalLen(_)
TotalLen(cs) == IF cs = <<>> THEN 0 ELSE Len(Head(cs)) + TotalLen(Tail(cs))

\* C7: a chunk header whose length field is zero or is not a decimal number
\* is fatal: nc_session_recv_reply returns 0 without a reply, and no byte
\* behind that header is read as chunk payload.
C7_BadLengthIsFatal ==
    rcase.kind = "badhdr" =>
       /\ lenread <= TotalLen(rcase.chunks)
       /\ rpc \notin {"parse", "crashed"}
       /\ rpc = "done" => (replyRet = 0 /\ reply = "unset")

\* C8: when the reassembled message is empty or is not well-formed XML,
\* nc_session_recv_reply returns 0 and hands out no reply; a reply is
\* handed out only for a message that was parsed.
C8_UnparsableIsFailure ==
    /\ (rtext # NoText /\ rparsed = NoMsg)
          => (rpc = "done" /\ replyRet = 0 /\ reply = "unset")
    /\ reply # "unset" => rparsed # NoMsg

\* The table of reply types.
TableType(doc) ==
    IF doc.root # ROOT_REPLY THEN "NC_REPLY_UNKNOWN"
    ELSE IF doc.child = CHILD_OK THEN "NC_REPLY_OK"
    ELSE IF doc.child = CHILD_ERROR THEN "NC_REPLY_ERROR"
    ELSE IF doc.child = CHILD_DATA THEN "NC_REPLY_DATA"
    ELSE "NC_REPLY_UNKNOWN"

\* C9: every message that was parsed is classified by the table (a root
\* <rpc-reply> without any child is UNKNOWN), and the message id reported
\* is the root's message-id attribute, 0 without one.
C9_ClassificationTable ==
    (rtext # NoText /\ rparsed # NoMsg) =>
       /\ rpc = "done"
       /\ rret = EXIT_SUCCESS
       /\ reply = "msg"
       /\ rmsg.type = TableType(rparsed)
       /\ rmsg.msgid = (IF rparsed.id = <<>> THEN 0
                        ELSE DigitsValue(rparsed.id))
       /\ replyRet = rmsg.msgid

(***************************************************************************)
(* One nc_session_close, and the peer's answer to <close-session>.         *)
(***************************************************************************)
CloseCases ==
    {c \in RecvCases :
        \/ c.kind \in {"cut", "empty"}
        \/ c.sent \in DocTexts /\ Len(c.chunks) = 1}

InitClose ==
    /\ msgid = InitMsgid
    /\ fd_output = -1
    /\ fd_input = -1
    /\ SendIdle
    /\ limit = 1
    /\ cpc = "idle"
    /\ CpbltsNone
    /\ \E c \in CloseCases :
          /\ rcase = c
          /\ input = StreamOf(c)
          /\ version \in VersionsOf(c)
    /\ ssh_channel \in BOOLEAN
    /\ hostname \in BOOLEAN
    /\ eof \in BOOLEAN
    /\ buflen \in {0, BufInit}
    /\ RecvLocalsIdle

NextClose ==
    \/ CloseCall
    \/ StampLoad(1)
    \/ StampStore(1)
    \/ SendEnter(1)
    \/ WriteBytes(1)
    \/ WriteError(1)
    \/ WriteOutside(1)
    \/ SendReturn(1)
    \/ CloseAfterSend
    \/ UntilByte
    \/ LenBytes
    \/ ReadAgain
    \/ ReadError
    \/ ReadEofSsh
    \/ Parse
    \/ CloseFreeReply
    \/ CloseTeardown

SpecClose == InitClose /\ [][NextClose]_vars

\* C10: nc_session_close never fails: whatever the transport does (write
\* errors, the peer closing the stream at once, no reply), the process
\* survives the call, the reply is awaited only after a send that
\* succeeded, and the close goes on to the teardown.
C10_CloseNeverFails ==
    /\ cpc # "crashed"
    /\ spc[1] # "crashed"
    /\ rpc # "crashed"
    /\ cpc = "receiving" => (log # <<>> /\ log[1].sent)

(***************************************************************************)
(* Calls of nc_session_recv_reply, one after the other, on a stream the    *)
(* peer stops in the middle of a frame.  The reading process keeps         *)
(* running and bytes that were written arrive: every step of the reader    *)
(* is weakly fair.  The transport's errors and its "try again" are not.    *)
(***************************************************************************)
\* session.c:699-709: nc_session_recv_reply has returned; the caller's next
\* call starts with fresh locals and finds the statics of
\* nc_session_read_until (buf, buflen) as the last call left them.
RecvReturned ==
    /\ rpc = "done"
    /\ rpc' = "idle"
    /\ zeroed' = 0
    /\ rdbuf' = <<>>
    /\ endtag' = <<>>
    /\ rwhere' = "none"
    /\ text' = <<>>
    /\ chunk_length' = 0
    /\ lenbuf' = <<>>
    /\ rret' = EXIT_SUCCESS
    /\ reply' = "unset"
    /\ rmsg' = NoReply
    /\ replyRet' = 0
    /\ rtext' = NoText
    /\ rparsed' = NoMsg
    /\ lenread' = 0
    /\ rfail' = FALSE
    /\ zrounds' = 0
    /\ UNCHANGED <<fd_input, input, eof, buflen, bufFreed, rcase>>
    /\ UNCHANGED <<svars, cvars, pvars>>

InitEof ==
    /\ InitRecv
    /\ rcase.kind = "cut"

NextEof ==
    \/ RecvCall
    \/ UntilByte
    \/ LenBytes
    \/ ReadAgain
    \/ ReadZeroFd
    \/ ReadError
    \/ ReadEofSsh
    \/ ReadNoWay
    \/ RecvReturned

SpecEof ==
    /\ InitEof
    /\ [][NextEof]_vars
    /\ WF_vars(RecvCall)
    /\ WF_vars(UntilByte)
    /\ WF_vars(LenBytes)
    /\ WF_vars(ReadZeroFd)
    /\ WF_vars(ReadEofSsh)
    /\ WF_vars(ReadNoWay)

\* A read loop asks for a byte the peer, having closed the stream, will
\* never send.
EofPending ==
    /\ rpc \in {"until", "len"}
    /\ CanRead
    /\ input = <<>>
    /\ eof

\* C11: the end of the stream ends every read with an error, over an SSH
\* channel and over a file descriptor: once a read loop waits at the end of
\* the stream, nc_session_recv_reply eventually returns 0.
C11_EofTerminates ==
    EofPending ~> (rpc = "done" /\ replyRet = 0)

\* C20: whenever nc_session_read_until runs, its static buffer is allocated
\* storage: no call, the first or a later one, reads, writes or frees a
\* buffer that an earlier failed call released.
C20_BufferIsAllocated ==
    rpc \in {"until", "crashed"} => ~bufFreed

(***************************************************************************)
(* What nc_session_send puts on the transport.                             *)
(***************************************************************************)
\* session.c:330-355: the frame of a document under the session's version.
Frame(m) ==
    IF version = NETCONFV11
    THEN Encode11(<<XmlDump(m)>>)
    ELSE Encode10(XmlDump(m))

\* session.c:723-733: the duplicate a completed call r handed to
\* nc_session_send: the caller's document, stamped if it is an <rpc>, with
\* the base namespace.
SentDoc(r) ==
    LET d == CHOOSE x \in Docs : x.root = r.root
    IN  [d EXCEPT !.id = IF r.root = ROOT_RPC THEN DecimalU64(r.stamped)
                         ELSE <<>>,
                  !.ns = BaseNs]

\* The bytes call n wrote, in the order it wrote them.
WireOf(n) == Bytes(SelectSeq(wire, LAMBDA w : w.by = n))

\* C12: a write error is reported and short writes are retried: a write
\* primitive that returns an error ends nc_session_send with EXIT_FAILURE
\* (so that nc_session_send_rpc returns 0), and without any error a call
\* that returned success has written its whole frame, in order.
C12_WriteErrorReported ==
    /\ [](werrs = 0 =>
            \A i \in 1 .. Len(log) :
               log[i].sent => WireOf(log[i].call) = Frame(SentDoc(log[i])))
    /\ [][WriteError(1) =>
             (spc'[1] = "ret" /\ sendret'[1] = EXIT_FAILURE)]_vars

\* C19: the text of every outgoing <rpc> carries the message-id that is the
\* counter's value when the call was made, the text of any other outgoing
\* document carries none, and a successful send of such a document leaves
\* the counter as it was.
C19_RpcCarriesItsId ==
    /\ \A t \in Threads :
          (spc[t] = "write" /\ sstage[t] = "text") =>
             LET doc == XmlReadDoc(sbuf[t])
             IN  /\ doc # NoMsg
                 /\ doc.id = IF doc.root = ROOT_RPC THEN Decimal(sbefore[t])
                             ELSE <<>>
    /\ \A i \in 1 .. Len(log) :
          (log[i].sent /\ log[i].root # ROOT_RPC)
             => (log[i].after = log[i].before /\ log[i].stamped = -1)

\* An <rpc> and, after it, a <hello> were sent: the <hello> call found the
\* counter advanced and left it there.
C19_Witness ==
    \E i, j \in 1 .. Len(log) :
       /\ i < j
       /\ log[i].sent /\ log[i].root = ROOT_RPC
       /\ log[j].sent /\ log[j].root = ROOT_HELLO
       /\ log[j].before = Incremented(log[i].stamped)
       /\ log[j].after = log[j].before

(***************************************************************************)
(* nc_session_read_until on messages about as long as its buffer.          *)
(***************************************************************************)
\* Messages of n bytes, none of them part of a terminator.
Filler(n) == [i \in 1 .. n |-> 97]

\* v1.0 frames whose length, terminator included, is within MaxBeyond bytes
\* of the starting buffer size, below it and above.
LongCases ==
    {[kind |-> "v10", sent |-> Filler(len - Len(NC_V10_END_MSG)),
      chunks |-> <<>>, hdr |-> <<>>, trail |-> tr] :
        len \in (BufInit - MaxBeyond) .. (BufInit + MaxBeyond),
        tr \in Trailers}

\* The first call in the process (buflen = 0) or a later one, of a session
\* that reads from a channel or from a descriptor.
InitLong ==
    /\ msgid = InitMsgid
    /\ fd_output = -1
    /\ SendIdle
    /\ limit = 0
    /\ cpc = "none"
    /\ CpbltsNone
    /\ \E c \in LongCases :
          /\ rcase = c
          /\ input = StreamOf(c)
          /\ version \in VersionsOf(c)
    /\ \E way \in {<<TRUE, -1>>, <<FALSE, 1>>} :
          /\ ssh_channel = way[1]
          /\ fd_input = way[2]
    /\ hostname = TRUE
    /\ eof = FALSE
    /\ buflen \in {0, BufInit}
    /\ RecvLocalsIdle

NextLong ==
    \/ RecvCall
    \/ UntilByte
    \/ ReadAgain

SpecLong == InitLong /\ [][NextLong]_vars

\* s ends with tag.
EndsWith(s, tag) ==
    /\ Len(s) >= Len(tag)
    /\ SubSeq(s, Len(s) - Len(tag) + 1, Len(s)) = tag

\* C18: nc_session_read_until returns exactly the bytes up to and including
\* the first occurrence of the sentinel, whatever their number: it never
\* reads on with the sentinel at the end of what it has read, and when it
\* returns, it has read the frame and left what follows it on the stream.
C18_ReadUntilFirstSentinel ==
    /\ rpc = "until" => ~EndsWith(rdbuf, endtag)
    /\ rpc = "parse" =>
          (rdbuf = Encode10(rcase.sent) /\ input = rcase.trail)

(***************************************************************************)
(* A caller making one capability set, changing it and then iterating over *)
(* it.                                                                     *)
(***************************************************************************)
InitCpblts ==
    /\ msgid = InitMsgid
    /\ version = NETCONFV10
    /\ ssh_channel = FALSE
    /\ hostname = FALSE
    /\ fd_output = -1
    /\ fd_input = -1
    /\ SendIdle
    /\ limit = 0
    /\ RecvIdle
    /\ cpc = "none"
    /\ CpbltsNone

NextCpblts ==
    \/ \E l \in Lists : CpbltsNew(l)
    \/ CpbltsDefault
    \/ \E u \in CallerURIs : CpbltsAdd(u)
    \/ \E u \in CallerURIs : CpbltsRemove(u)
    \/ CpbltsIterStart
    \/ CpbltsIterNext

SpecCpblts == InitCpblts /\ [][NextCpblts]_vars

\* How many times u occurs in the sequence w.
Count(w, u) == Cardinality({i \in 1 .. Len(w) : w[i] = u})

\* How many of the entries below items held u before the last call.
PrevCount(u) == Cardinality({i \in 0 .. prev.items - 1 : prev.list[i] = u})

\* C13: a set made from a list holds the list: as many items as the list
\* has entries, and a full iteration returns the list's URIs in order, each
\* entry once.
C13_NewKeepsList ==
    (lastop.op = "new" /\ cst = "live") =>
       /\ items = Len(given)
       /\ itst = "ended" => out = given

\* C14: items <= list_size in every state of the set, nc_cpblts_remove
\* leaves list_size as it was, and no call is refused.
C14_ItemsWithinCapacity ==
    cst # "none" =>
       /\ items <= list_size
       /\ lastop.op = "remove" => list_size = prev.list_size
       /\ lastop.ret = EXIT_SUCCESS

\* C15: the entry at index items is the NULL terminator and every entry
\* below it is a URI.
C15_TerminatorAfterLast ==
    cst # "none" =>
       /\ list[items] = NULLP
       /\ \A i \in 0 .. items - 1 : list[i] \in URIs

\* C16: nc_cpblts_remove of a URI the set holds takes out its first
\* occurrence: one item less, the last element in the removed slot, and a
\* following full iteration returns the URIs held before less one
\* occurrence of that URI; nc_cpblts_remove of a URI the set does not hold
\* changes nothing.
C16_RemoveFirstOccurrence ==
    (lastop.op = "remove" /\ cst # "none") =>
       IF PrevCount(lastop.uri) > 0
       THEN /\ items = prev.items - 1
            /\ cst # "crashed"
            /\ \A i \in 1 .. Len(out) : out[i] \in URIs
            /\ itst = "ended" =>
                  \A u \in URIs :
                     Count(out, u) =
                        PrevCount(u) - (IF u = lastop.uri THEN 1 ELSE 0)
       ELSE /\ items = prev.items
            /\ list_size = prev.list_size
            /\ list = prev.list

\* C17: on a set made empty, any number of nc_cpblts_add calls leave the
\* URIs added, in the order they were added: no call fails, and a full
\* iteration returns them all; the default set is such a set, of the six
\* URIs of DefaultURIs.
C17_AddAppends ==
    (cst # "none" /\ given = <<>> /\ nrems = 0) =>
       /\ cst # "crashed"
       /\ lastop.ret = EXIT_SUCCESS
       /\ items = Len(want)
       /\ itst = "ended" => out = want


(***************************************************************************)
(* The growth of the storage.                                              *)
(***************************************************************************)
\* A capability set made by nc_cpblts_new or nc_session_get_cpblts_default
\* and changed by nc_cpblts_add only.
OnlyAdded == cst # "none" /\ nrems = 0

\* C21: the storage starts with room for 10 entries and doubles on
\* overflow in element units: in every state reached by nc_cpblts_new and
\* any number of nc_cpblts_add calls the allocation has room for at least
\* list_size entries, and every index one of these calls writes (the URI
\* at index items, the terminator after it) is below the number of
\* allocated entries.
C21_GrowthInElements ==
    /\ [](OnlyAdded =>
            /\ cap >= list_size
            /\ list_size \in {ListSizeInit, ListSizeInit * 2})
    /\ [][/\ \A l \in Lists : CpbltsNew(l) => ~CpbltsNewOf(l).oob
          /\ \A u \in CallerURIs :
                (OnlyAdded /\ CpbltsAdd(u)) => ~CpbltsAddOf(Struct, u).c.oob
         ]_vars

=============================================================================
